---- MODULE Spec2Model ----
(***************************************************************************)
(* Write-back buffer synchronisation of lumen's gpu/buffer.ts:             *)
(*   SyncBuffer   - host mirror, dirty range, deferred flush (clean)       *)
(*   DataBuffer   - queue write (set), staged read-back (get)              *)
(*   ReadBuffer   - mapped read through BufferMapper                       *)
(*   BufferMapper - coalescing of logical mapAsync calls on this.promise   *)
(*   copy         - aligned buffer-to-buffer copy                          *)
(* A step of the model is one task of the event loop (a call made by the   *)
(* caller, a timer callback, the settlement of a hardware promise)         *)
(* together with all the promise reactions (microtasks) it triggers.       *)
(***************************************************************************)
EXTENDS Integers, Sequences, FiniteSets, TLC

\* ------------------------------------------------------------- bounds
\* largest size / data length a SyncBuffer is created from
MaxSize == 6
\* number of SyncBuffer.set calls explored
MaxSets == 2
\* number of SyncBuffer.set calls explored before a read-back
MaxReadSets == 1
\* number of DataBuffer.get(...).asData() calls explored
MaxGets == 1
\* number of logical BufferMapper.mapAsync calls explored
MaxReqs == 3
\* the byte size the stand-alone ReadBuffer is created with
MapBufSize == 13
\* queue writes after which the caller makes no direct DataBuffer.set call
MaxWrites == 2
\* copies after which the caller makes no direct copy call
MaxCopies == 1

\* ------------------------------------------------------------- helpers
Min(a, b) == IF a < b THEN a ELSE b
Max(a, b) == IF a > b THEN a ELSE b

\* rounding to the nearest multiple instead of up: Math.round(value / n) * n
upperMultipleOf_rounding(n, value) == ((2 * value + n) \div (2 * n)) * n

\* Math.ceil(value / n) * n
upperMultipleOf(n, value) == ((value + n - 1) \div n) * n

\* Math.floor(value / n) * n
lowerMultipleOf(n, value) == (value \div n) * n

\* memory is a sequence of bytes; the byte at (0-based) offset i is mem[i + 1]
Zeros(n) == [i \in 1..n |-> 0]

\* the bytes of mem at offsets [offset, offset + size)
Slice(mem, offset, size) == [j \in 1..size |-> mem[offset + j]]

\* mem with the bytes at [offset, offset + Len(src)) replaced by src
Patch(mem, offset, src) ==
    [i \in 1..Len(mem) |->
        IF i > offset /\ i <= offset + Len(src) THEN src[i - offset] ELSE mem[i]]

\* half-open byte intervals <<lo, hi>>
Overlaps(r, s) == r[1] < r[2] /\ s[1] < s[2] /\ r[1] < s[2] /\ s[1] < r[2]

\* ------------------------------------------------------------- GPUBuffer
\* createBuffer with the size as given
newBlankBuffer_exactSize(size) ==
    [ size      |-> size,
      bytes     |-> Zeros(size),
      destroyed |-> FALSE,
      mapState  |-> "unmapped",
      mapping   |-> <<0, 0>>,
      views     |-> {} ]

\* device.wrapped.createBuffer({ size: upperMultipleOf(4, size), ... })
newBlankBuffer(size) ==
    [ size      |-> upperMultipleOf(4, size),
      bytes     |-> Zeros(upperMultipleOf(4, size)),
      destroyed |-> FALSE,
      mapState  |-> "unmapped",
      mapping   |-> <<0, 0>>,
      views     |-> {} ]

\* createBuffer({ mappedAtCreation, size: upperMultipleOf(4, data.byteLength) });
\* the data's bytes are copied in, the padding stays zero
newInitializedBuffer(data) ==
    [ newBlankBuffer(data.byteLength) EXCEPT
        !.bytes = Patch(@, 0, Slice(data.buffer, data.byteOffset, data.byteLength)) ]

\* GPUBuffer.getMappedRange(offset, size) returns (does not throw OperationError)
GetMappedRangeOk(b, offset, size) ==
    /\ b.mapState = "mapped"
    /\ offset % 8 = 0
    /\ size % 4 = 0
    /\ offset >= b.mapping[1]
    /\ offset + size <= b.mapping[2]
    /\ \A v \in b.views : ~Overlaps(v, <<offset, offset + size>>)

\* GPUBuffer.mapAsync(mode, offset, size) passes validation (else it rejects)
MapAsyncValid(b, offset, size) ==
    /\ ~b.destroyed
    /\ b.mapState = "unmapped"
    /\ offset % 8 = 0
    /\ size % 4 = 0
    /\ offset + size <= b.size

\* GPUBuffer.unmap(): drops the mapping and its views
Unmap(b) == [b EXCEPT !.mapState = "unmapped", !.mapping = <<0, 0>>, !.views = {}]

\* GPUBuffer.destroy(): unmaps and invalidates the handle
Destroy(b) == [Unmap(b) EXCEPT !.destroyed = TRUE]

\* ------------------------------------------------------------- BufferMapper
(* A mapper is a record:                                                   *)
(*   buffer   the GPUBuffer it was constructed with                        *)
(*   range    this.range                                                   *)
(*   chain    the promises this.promise has held, in order; chain[i] was   *)
(*            derived from chain[i-1] (chain[0] is Promise.resolve()), by  *)
(*            then(callback, callback) ("then") or finally(unmap)          *)
(*            ("finally"); this.promise is the last one                    *)
(*   reqs     the logical requests, in arrival order, each with the chain  *)
(*            promise its resolve/reject reaction is registered on (node), *)
(*            the number of physical maps issued before it arrived (maps)  *)
(*            and of physical calls issued before its reaction ran (at)    *)
(*   served   the requests whose promise was settled, in settling order    *)
(*   inFlight the physical mapAsync promise not yet settled (node = 0:     *)
(*            none)                                                        *)
(*   calls    the physical calls issued on the buffer so far, in order:    *)
(*            [op |-> "map", offset, size] for buffer.mapAsync(mode,       *)
(*            offset, size), [op |-> "unmap"] for buffer.unmap(), each     *)
(*            with the buffer's mapState when the call was made and, for a *)
(*            map, how its promise settled (result)                        *)
NoFlight == [node |-> 0, valid |-> FALSE]

NewMapper(b) ==
    [ buffer   |-> b,
      range    |-> <<b.size, 0>>,
      chain    |-> <<>>,
      reqs     |-> <<>>,
      served   |-> <<>>,
      inFlight |-> NoFlight,
      calls    |-> <<>> ]

\* the positions of the physical mapAsync calls in the call log
MapCalls(m) == {k \in 1..Len(m.calls) : m.calls[k].op = "map"}

\* the position of the last physical mapAsync call (0: none)
LastMapCall(m) ==
    IF MapCalls(m) = {} THEN 0
    ELSE CHOOSE k \in MapCalls(m) : \A j \in MapCalls(m) : j <= k

Settled(m, i) == i = 0 \/ m.chain[i].state \in {"fulfilled", "rejected"}

Outcome(m, i) == IF i = 0 THEN "fulfilled" ELSE m.chain[i].state

Reason(m, i) == IF i = 0 THEN "none" ELSE m.chain[i].reason

\* the reaction resolving with the start of the mapped range, without the offset
\* correction: new Uint8Array(range.slice(), 0, size)
RunReq_withoutCorrection(m, k, outcome, reason) ==
    LET r == m.reqs[k]
        \* const range = this.buffer.getMappedRange(validOffset, validSize)
        range == Slice(m.buffer.bytes, r.validOffset, r.validSize)
    IN
    IF outcome = "rejected"
    THEN [m EXCEPT !.reqs[k].status = "rejected", !.reqs[k].reason = reason,
                   !.reqs[k].at = Len(m.calls), !.served = Append(@, k)]
    ELSE IF GetMappedRangeOk(m.buffer, r.validOffset, r.validSize)
    THEN [m EXCEPT
            !.buffer.views = @ \cup {<<r.validOffset, r.validOffset + r.validSize>>},
            !.reqs[k].status = "resolved",
            !.reqs[k].at = Len(m.calls), !.served = Append(@, k),
            !.reqs[k].data = Slice(range, 0, r.size)]
    ELSE [m EXCEPT !.reqs[k].status = "hung"]

\* the reaction of request k once the promise it is registered on has settled:
\* on fulfilment getMappedRange(validOffset, validSize), slice() and resolve;
\* if getMappedRange throws, neither resolve nor reject is ever called ("hung")
RunReq(m, k, outcome, reason) ==
    LET r == m.reqs[k]
        \* const range = this.buffer.getMappedRange(validOffset, validSize)
        range == Slice(m.buffer.bytes, r.validOffset, r.validSize)
    IN
    IF outcome = "rejected"
    THEN [m EXCEPT !.reqs[k].status = "rejected", !.reqs[k].reason = reason,
                   !.reqs[k].at = Len(m.calls), !.served = Append(@, k)]
    ELSE IF GetMappedRangeOk(m.buffer, r.validOffset, r.validSize)
    THEN [m EXCEPT
            !.buffer.views = @ \cup {<<r.validOffset, r.validOffset + r.validSize>>},
            !.reqs[k].status = "resolved",
            !.reqs[k].at = Len(m.calls), !.served = Append(@, k),
            !.reqs[k].data = \* resolve(new Uint8Array(range.slice(), offsetCorrection, size))
                             Slice(range, r.correction, r.size)]
    ELSE [m EXCEPT !.reqs[k].status = "hung"]

RECURSIVE RunReqs(_, _, _, _, _)
\* the reactions of the requests registered on chain[i], in registration order
RunReqs(m, i, k, outcome, reason) ==
    IF k > Len(m.reqs) THEN m
    ELSE IF m.reqs[k].node = i /\ m.reqs[k].status = "pending"
    THEN RunReqs(RunReq(m, k, outcome, reason), i, k + 1, outcome, reason)
    ELSE RunReqs(m, i, k + 1, outcome, reason)

\* () => this.buffer.unmap(): a pending physical map is aborted by it
CallUnmap(m) ==
    [m EXCEPT !.buffer = Unmap(@),
              !.inFlight.valid = FALSE,
              !.calls = Append(@, [op |-> "unmap", offset |-> 0, size |-> 0,
                                   mapState |-> m.buffer.mapState,
                                   result |-> "none"])]

RECURSIVE SettleNode_passingRejection(_, _, _, _)
\* the chain built with then(callback) alone: a rejection skips the callback and
\* rejects the derived promise as well
SettleNode_passingRejection(m, i, outcome, reason) ==
    LET m1 == [m EXCEPT !.chain[i].state = outcome, !.chain[i].reason = reason]
        m2 == RunReqs(m1, i, 1, outcome, reason)
    IN  IF i = Len(m2.chain) THEN m2
        ELSE IF m2.chain[i + 1].kind = "finally"
        THEN SettleNode_passingRejection(CallUnmap(m2), i + 1, outcome, reason)
        ELSE IF outcome = "rejected"
        THEN SettleNode_passingRejection(m2, i + 1, outcome, reason)
        ELSE [m2 EXCEPT !.chain[i + 1].state = "timer"]

RECURSIVE SettleNode(_, _, _, _)
\* chain[i] settles: the requests registered on it react first, then the promise
\* derived from it: a "finally" runs unmap() and settles the same way, a "then"
\* runs the callback, which arms the timer
SettleNode(m, i, outcome, reason) ==
    LET m1 == [m EXCEPT !.chain[i].state = outcome, !.chain[i].reason = reason]
        m2 == RunReqs(m1, i, 1, outcome, reason)
    IN  IF i = Len(m2.chain) THEN m2
        ELSE IF m2.chain[i + 1].kind = "finally"
        THEN SettleNode(CallUnmap(m2), i + 1, outcome, reason)
        ELSE [m2 EXCEPT !.chain[i + 1].state = "timer"]

\* this.promise = this.promise.then(callback, callback)
scheduleMapping(m) ==
    LET tip == Len(m.chain) IN
    [m EXCEPT !.chain = Append(@,
        [kind |-> "then", state |-> IF Settled(m, tip) THEN "timer" ELSE "waiting",
         reason |-> "none"])]

\* mapAsync() rounding the size alone, without the offset correction
mapAsync_withoutSizeCorrection(m, offset, size) ==
    LET validOffset      == lowerMultipleOf(8, offset)
        offsetCorrection == offset - validOffset
        validSize        == upperMultipleOf(4, size)
        mappingScheduled == m.range[2] > m.range[1]
        m1 == [m EXCEPT !.range = << Min(m.range[1], validOffset),
                                     Max(m.range[2], validOffset + validSize) >>]
        m2 == IF mappingScheduled THEN m1 ELSE scheduleMapping(m1)
        tip == Len(m2.chain)
        m3 == [m2 EXCEPT !.reqs = Append(@,
                [offset |-> offset, size |-> size, validOffset |-> validOffset,
                 validSize |-> validSize, correction |-> offsetCorrection,
                 node |-> tip, status |-> "pending", data |-> <<>>,
                 reason |-> "none", maps |-> Cardinality(MapCalls(m)), at |-> 0])]
    IN  IF Settled(m3, tip)
        THEN RunReq(m3, Len(m3.reqs), Outcome(m3, tip), Reason(m3, tip))
        ELSE m3

\* BufferMapper.mapAsync(offset, size) with its call of request(...)
mapAsync(m, offset, size) ==
    LET validOffset      == lowerMultipleOf(8, offset)
        offsetCorrection == offset - validOffset
        validSize        == upperMultipleOf(4, size + offsetCorrection)
        mappingScheduled == m.range[2] > m.range[1]
        m1 == [m EXCEPT !.range = << Min(m.range[1], validOffset),
                                     Max(m.range[2], validOffset + validSize) >>]
        m2 == IF mappingScheduled THEN m1 ELSE scheduleMapping(m1)
        tip == Len(m2.chain)
        m3 == [m2 EXCEPT !.reqs = Append(@,
                [offset |-> offset, size |-> size, validOffset |-> validOffset,
                 validSize |-> validSize, correction |-> offsetCorrection,
                 node |-> tip, status |-> "pending", data |-> <<>>,
                 reason |-> "none", maps |-> Cardinality(MapCalls(m)), at |-> 0])]
    IN  IF Settled(m3, tip)
        THEN RunReq(m3, Len(m3.reqs), Outcome(m3, tip), Reason(m3, tip))
        ELSE m3

\* the chain promise whose timer is armed (timers fire in the order they were set)
ArmedNode(m) ==
    IF \E i \in 1..Len(m.chain) : m.chain[i].state = "timer"
    THEN CHOOSE i \in 1..Len(m.chain) :
            /\ m.chain[i].state = "timer"
            /\ \A j \in 1..(i - 1) : m.chain[j].state # "timer"
    ELSE 0

\* this.promise = this.promise.finally(() => this.buffer.unmap())
AddFinally(m) ==
    LET tip == Len(m.chain)
        m1  == [m EXCEPT !.chain = Append(@,
                  [kind |-> "finally", state |-> "waiting", reason |-> "none"])]
    IN  IF Settled(m, tip)
        THEN SettleNode(CallUnmap(m1), tip + 1, Outcome(m, tip), Reason(m, tip))
        ELSE m1

\* the setTimeout callback of scheduleMapping, for the armed promise i:
\* a negative size makes buffer.mapAsync throw a TypeError (GPUSize64 is
\* [EnforceRange]), which ends the callback: the promise never settles ("stuck")
TimerCallback(m, i) ==
    LET offset == m.range[1]
        size   == m.range[2] - m.range[1]
    IN  IF size < 0
        THEN [m EXCEPT !.chain[i].state = "stuck"]
        ELSE LET valid == MapAsyncValid(m.buffer, offset, size)
                 m1 == [m EXCEPT
                          !.chain[i].state  = "mapping",
                          !.inFlight        = [node |-> i, valid |-> valid],
                          !.calls           = Append(@, [op |-> "map", offset |-> offset,
                                                         size |-> size,
                                                         mapState |-> m.buffer.mapState,
                                                         result |-> "pending"]),
                          !.buffer.mapState = IF valid THEN "pending" ELSE @,
                          !.buffer.mapping  = IF valid THEN <<offset, offset + size>> ELSE @,
                          !.range           = <<m.buffer.size, 0>>]
             IN  AddFinally(m1)

\* the physical mapAsync promise settles: it resolves (the buffer is mapped) only
\* if the call was valid, was not aborted and the hardware succeeds (ok)
MapSettles(m, ok) ==
    LET i == m.inFlight.node
        reason == IF m.inFlight.valid THEN "HardwareError" ELSE "OperationError"
        m1 == [m EXCEPT !.inFlight = NoFlight,
                        !.calls[LastMapCall(m)].result =
                            IF m.inFlight.valid /\ ok THEN "fulfilled" ELSE reason]
    IN  IF m.inFlight.valid /\ ok
        THEN SettleNode([m1 EXCEPT !.buffer.mapState = "mapped"], i, "fulfilled", "none")
        ELSE SettleNode(
                [m1 EXCEPT !.buffer.mapState = IF m.inFlight.valid THEN "unmapped" ELSE @,
                           !.buffer.mapping  = IF m.inFlight.valid THEN <<0, 0>> ELSE @],
                i, "rejected", reason)

\* ------------------------------------------------------------- copy
\* copy() rounding the size up without adding the offset correction
copy_sizeWithoutCorrection(srcBuffer, srcOffset, dstBuffer, dstOffset, size) ==
    LET srcValidOffset      == lowerMultipleOf(4, srcOffset)
        dstValidOffset      == lowerMultipleOf(4, dstOffset)
        srcOffsetCorrection == srcOffset - srcValidOffset
        dstOffsetCorrection == dstOffset - dstValidOffset
        validSize           == upperMultipleOf(4, size)
        valid == /\ ~srcBuffer.destroyed /\ ~dstBuffer.destroyed
                 /\ srcValidOffset + validSize <= srcBuffer.size
                 /\ dstValidOffset + validSize <= dstBuffer.size
    IN  IF srcOffsetCorrection # dstOffsetCorrection
        THEN [threw |-> TRUE, dst |-> dstBuffer, commands |-> <<>>]
        ELSE [threw |-> FALSE,
              dst |-> IF valid
                      THEN [dstBuffer EXCEPT !.bytes =
                              Patch(@, dstValidOffset,
                                    Slice(srcBuffer.bytes, srcValidOffset, validSize))]
                      ELSE dstBuffer,
              commands |-> << <<srcValidOffset, dstValidOffset, validSize>> >>]

\* copy() without the comparison of the two offset corrections
copy_withoutCheck(srcBuffer, srcOffset, dstBuffer, dstOffset, size) ==
    LET srcValidOffset      == lowerMultipleOf(4, srcOffset)
        dstValidOffset      == lowerMultipleOf(4, dstOffset)
        srcOffsetCorrection == srcOffset - srcValidOffset
        validSize           == upperMultipleOf(4, size + srcOffsetCorrection)
        valid == /\ ~srcBuffer.destroyed /\ ~dstBuffer.destroyed
                 /\ srcValidOffset + validSize <= srcBuffer.size
                 /\ dstValidOffset + validSize <= dstBuffer.size
    IN  [threw |-> FALSE,
         dst |-> IF valid
                 THEN [dstBuffer EXCEPT !.bytes =
                         Patch(@, dstValidOffset,
                               Slice(srcBuffer.bytes, srcValidOffset, validSize))]
                 ELSE dstBuffer,
         commands |-> << <<srcValidOffset, dstValidOffset, validSize>> >>]

\* copy(size).from(srcBuffer, srcOffset).to(dstBuffer, dstOffset): throws when the
\* offset corrections differ, else submits one copyBufferToBuffer command, which
\* the queue executes if it passes validation
copy(srcBuffer, srcOffset, dstBuffer, dstOffset, size) ==
    LET srcValidOffset      == lowerMultipleOf(4, srcOffset)
        dstValidOffset      == lowerMultipleOf(4, dstOffset)
        srcOffsetCorrection == srcOffset - srcValidOffset
        dstOffsetCorrection == dstOffset - dstValidOffset
        validSize           == upperMultipleOf(4, size + srcOffsetCorrection)
        valid == /\ ~srcBuffer.destroyed /\ ~dstBuffer.destroyed
                 /\ srcValidOffset + validSize <= srcBuffer.size
                 /\ dstValidOffset + validSize <= dstBuffer.size
    IN  IF srcOffsetCorrection # dstOffsetCorrection
        THEN [threw |-> TRUE, dst |-> dstBuffer, commands |-> <<>>]
        ELSE [threw |-> FALSE,
              dst |-> IF valid
                      THEN [dstBuffer EXCEPT !.bytes =
                              Patch(@, dstValidOffset,
                                    Slice(srcBuffer.bytes, srcValidOffset, validSize))]
                      ELSE dstBuffer,
              commands |-> << <<srcValidOffset, dstValidOffset, validSize>> >>]

\* ------------------------------------------------------------- DataBuffer
\* queue.writeBuffer(buffer, bufferOffset, data: ArrayBuffer, dataOffset, size)
writeBufferOutcome(b, bufferOffset, data, dataOffset, size) ==
    IF dataOffset < 0 \/ size < 0 THEN "TypeError"
    ELSE IF dataOffset + size > Len(data) \/ size % 4 # 0 THEN "OperationError"
    ELSE IF b.destroyed \/ b.mapState # "unmapped" \/ bufferOffset % 4 # 0
            \/ bufferOffset + size > b.size THEN "ValidationError"
    ELSE "ok"

\* DataBuffer.set(bufferSegment).fromData(data, dataOffset): the one writeBuffer
\* call it makes (what is handed to the queue, and what the queue does with it)
DataBuffer_set(b, bufferSegment, data, dataOffset) ==
    LET bufferOffset       == bufferSegment.offset
        size               == bufferSegment.size
        absoluteDataOffset == data.byteOffset + dataOffset
        validBufferOffset  == lowerMultipleOf(4, bufferOffset)
        offsetCorrection   == bufferOffset - validBufferOffset
        validDataOffset    == absoluteDataOffset - offsetCorrection
        validSize          == upperMultipleOf(4, size + offsetCorrection)
        outcome == writeBufferOutcome(b, validBufferOffset, data.buffer,
                                      validDataOffset, validSize)
    IN  [ call |-> [offset |-> bufferOffset, size |-> size,
                    validBufferOffset |-> validBufferOffset,
                    validDataOffset |-> validDataOffset,
                    validSize |-> validSize, outcome |-> outcome,
                    destroyed |-> b.destroyed, capacity |-> b.size],
          buffer |-> IF outcome = "ok"
                     THEN [b EXCEPT !.bytes =
                             Patch(@, validBufferOffset,
                                   Slice(data.buffer, validDataOffset, validSize))]
                     ELSE b ]

\* ReadBuffer.get().asData(): no segment, no data: mapper.mapAsync(0, this.size)
ReadBuffer_get(temp) == mapAsync(temp, 0, temp.buffer.size)

\* DataBuffer.get() destroying the staging buffer after the try block, without
\* a finally: an exception of the copy skips the destroy
DataBuffer_get_withoutFinally(b, bufferSegment) ==
    LET size   == bufferSegment.size
        temp   == NewMapper(newBlankBuffer(size))
        copied == copy(b, bufferSegment.offset, temp.buffer, 0, size)
        temp1  == [temp EXCEPT !.buffer = copied.dst]
    IN  IF copied.threw
        THEN [ mapper |-> temp1, threw |-> TRUE, destroys |-> 0,
               segment |-> bufferSegment, commands |-> copied.commands ]
        ELSE [ mapper |-> [ReadBuffer_get(temp1) EXCEPT !.buffer = Destroy(@)],
               threw |-> FALSE, destroys |-> 1, segment |-> bufferSegment,
               commands |-> copied.commands ]

\* DataBuffer.get(bufferSegment).asData(): the call up to its return (asData is
\* not async: the finally block runs when the promise of temp.get().asData() is
\* returned, or when the copy throws). The result is the staging buffer's
\* record: its mapper (with the GPUBuffer), whether the copy threw, and how
\* often temp.destroy() ran
DataBuffer_get(b, bufferSegment) ==
    LET size   == bufferSegment.size
        temp   == NewMapper(newBlankBuffer(size))
        \* try { this.copy(bufferSegment).to(temp); return temp.get().asData(...) }
        copied == copy(b, bufferSegment.offset, temp.buffer, 0, size)
        temp1  == [temp EXCEPT !.buffer = copied.dst]
        tried  == IF copied.threw THEN temp1 ELSE ReadBuffer_get(temp1)
    IN  \* finally { temp.destroy() }
        [ mapper   |-> [tried EXCEPT !.buffer = Destroy(@)],
          threw    |-> copied.threw,
          destroys |-> 1,
          segment  |-> bufferSegment,
          commands |-> copied.commands ]

\* ------------------------------------------------------------- Element
\* An element of the type layer (types.js): a byte range of a view with a value
\* encoding. An element is [offset, size]; a value v is encoded position by
\* position, so that shifted or reordered bytes differ from the encoding.
ElemSizes == {0, 1, 4}

ElemOffsets(length) == {0, 1, 3, 4, length - 1, length}

Values == {1, 2}

Elements(length) ==
    {e \in [offset : ElemOffsets(length), size : ElemSizes] :
        e.offset >= 0 /\ e.offset + e.size <= length}

\* element.range()
Element_range(e) == <<e.offset, e.offset + e.size>>

\* the byte encoding of value v for element e
Encode(e, v) == [j \in 1..e.size |-> 16 * v + j]

\* element.write(view, value)
Element_write(view, e, v) ==
    [view EXCEPT !.buffer = Patch(@, view.byteOffset + e.offset, Encode(e, v))]

\* element.read(view), as the bytes it decodes
Element_read(view, e) == Slice(view.buffer, view.byteOffset + e.offset, e.size)

\* ------------------------------------------------------------- SyncBuffer
VARIABLES
    cpuBuffer,    \* SyncBuffer.cpuBuffer: a DataView [buffer, byteOffset, byteLength]
    dirtyRange,   \* SyncBuffer.dirtyRange
    cleanTimers,  \* number of setTimeout(() => this.clean()) callbacks not yet run
    gpuBuffer,    \* SyncBuffer.gpuBuffer.wrapped: the DataBuffer's GPUBuffer
    queueWrites,  \* the queue.writeBuffer calls made so far, in order
    sinceFlush,   \* history: the ranges passed to dirty() since the last clean()
    shadow,       \* history: per mirror byte, the byte last written by set (-1: none)
    sets,         \* history: number of SyncBuffer.set calls made
    lastSet,      \* history: the element of the last SyncBuffer.set call (none: <<>>)
    temps,        \* the staging ReadBuffers of the DataBuffer.get calls made, in order
    copies,       \* the copy(...) calls made so far, in order, each with the
                  \* copyBufferToBuffer commands it enqueued on the device
    mapper,       \* a ReadBuffer's BufferMapper (with its GPUBuffer)
    reads,        \* history: the SyncBuffer.get calls made, in order
    handles,      \* which GPUBuffer handle (numbered in order of createBuffer)
                  \* each object references, and which handles were destroyed
    mapWrites,    \* the WriteBuffer.set(..).fromData(..) calls made, in order
    destructionListeners,  \* Device.destructionListeners: the safeListeners, each
                           \* named by the number of the addListener call that made it
    recoveryListeners,     \* Device.recoveryListeners, likewise
    removers,     \* history: per addListener call, the list it pushed to and how
                  \* often the function it returned was called
    timeOuts      \* the timeOut(promise, t, tag) calls made, in order

vars == << cpuBuffer, dirtyRange, cleanTimers, gpuBuffer, queueWrites, sinceFlush,
           shadow, sets, lastSet, temps, copies, mapper, reads, handles, mapWrites,
           destructionListeners, recoveryListeners, removers, timeOuts >>

deviceVars == << destructionListeners, recoveryListeners, removers >>

syncVars == << cpuBuffer, dirtyRange, cleanTimers, gpuBuffer, queueWrites,
               sinceFlush, shadow, sets, lastSet >>

\* dirty() keeping the range it had when the flush was scheduled
dirty_rangeAtScheduling(dr, range) ==
    [ schedule   |-> dr[1] > dr[2],
      dirtyRange |-> IF dr[1] > dr[2] THEN range ELSE dr ]

\* dirty() taking a range without bytes ([k, k]) for the empty encoding
dirty_rescheduling(dr, range) ==
    [ schedule   |-> dr[1] >= dr[2],
      dirtyRange |-> << IF range[1] < dr[1] THEN range[1] ELSE dr[1],
                        IF range[2] > dr[2] THEN range[2] ELSE dr[2] >> ]

\* SyncBuffer.dirty(range): whether a flush is scheduled, and the widened range
dirty(dr, range) ==
    [ schedule   |-> dr[1] > dr[2],
      dirtyRange |-> << IF range[1] < dr[1] THEN range[1] ELSE dr[1],
                        IF range[2] > dr[2] THEN range[2] ELSE dr[2] >> ]

\* SyncBuffer.set(element, value): the mirror, and what dirty() makes of the range
SyncBuffer_set(cpu, dr, element, value) ==
    [ cpuBuffer |-> Element_write(cpu, element, value),
      dirtied   |-> dirty(dr, Element_range(element)) ]

\* SyncBuffer.get(element)
SyncBuffer_get(cpu, element) == Element_read(cpu, element)

\* clean() handing the flushed bytes over: the mirror's dirty bytes are zeroed
clean_clearingMirror(cpu, dr, gpu) ==
    LET offset == dr[1]
        size   == dr[2] - dr[1]
        w      == DataBuffer_set(gpu, [offset |-> offset, size |-> size], cpu, offset)
    IN  [ cpuBuffer  |-> [cpu EXCEPT !.buffer =
                            Patch(@, cpu.byteOffset + offset, Zeros(Max(size, 0)))],
          gpuBuffer  |-> w.buffer,
          writes     |-> <<w.call>>,
          dirtyRange |-> <<cpu.byteLength, 0>> ]

\* clean() calling fromData(this.cpuBuffer) without the data offset
clean_fromDataStart(cpu, dr, gpu) ==
    LET offset == dr[1]
        size   == dr[2] - dr[1]
        w      == DataBuffer_set(gpu, [offset |-> offset, size |-> size], cpu, 0)
    IN  [ cpuBuffer  |-> cpu,
          gpuBuffer  |-> w.buffer,
          writes     |-> <<w.call>>,
          dirtyRange |-> <<cpu.byteLength, 0>> ]

\* clean() leaving the dirty range as it found it
clean_keepingRange(cpu, dr, gpu) ==
    LET offset == dr[1]
        size   == dr[2] - dr[1]
        w      == DataBuffer_set(gpu, [offset |-> offset, size |-> size], cpu, offset)
    IN  [ cpuBuffer  |-> cpu,
          gpuBuffer  |-> w.buffer,
          writes     |-> <<w.call>>,
          dirtyRange |-> dr ]

\* SyncBuffer.clean(): one DataBuffer.set over the dirty range, read when it runs
clean(cpu, dr, gpu) ==
    LET offset == dr[1]
        size   == dr[2] - dr[1]
        w      == DataBuffer_set(gpu, [offset |-> offset, size |-> size], cpu, offset)
    IN  [ cpuBuffer  |-> cpu,
          gpuBuffer  |-> w.buffer,
          writes     |-> <<w.call>>,
          dirtyRange |-> <<cpu.byteLength, 0>> ]

\* descriptor.data: a DataView of byteLength bytes at byteOffset of an ArrayBuffer
\* that has tail more bytes after the view
DataViewOf(byteOffset, byteLength, tail) ==
    [ buffer     |-> [i \in 1..(byteOffset + byteLength + tail) |-> 200 + i],
      byteOffset |-> byteOffset,
      byteLength |-> byteLength ]

\* the bytes an ArrayBuffer may have after a view
Tails == {0, 2}

Descriptors ==
    {[size |-> n, data |-> DataViewOf(0, 0, 0)] : n \in {MaxSize - 2, MaxSize}} \cup
    {[size |-> -1, data |-> DataViewOf(o, n, t)] :
        o \in {0, 1}, n \in {MaxSize - 2, MaxSize}, t \in Tails}

\* SyncBuffer.create(label, device, descriptor) with new DataBuffer(...)
SyncBuffer_create(descriptor) ==
    LET gpu == IF descriptor.size # -1
               THEN newBlankBuffer(descriptor.size)
               ELSE newInitializedBuffer(descriptor.data)
        cpu == IF descriptor.size # -1
               THEN [buffer |-> Zeros(gpu.size), byteOffset |-> 0, byteLength |-> gpu.size]
               ELSE descriptor.data
    IN  [ gpuBuffer |-> gpu, cpuBuffer |-> cpu, dirtyRange |-> <<cpu.byteLength, 0>> ]

\* the handles after new DataBuffer(...) (handle 1) and new ReadBuffer(...)
\* (handle 2, which its BufferMapper captures): created counts createBuffer calls,
\* retired holds the handles a wrapped setter has replaced
NewHandles ==
    [ created |-> 2, dataBuffer |-> 1, readBuffer |-> 2, mapper |-> 2,
      destroyed |-> {}, retired |-> {} ]

InitSync(descriptor) ==
    LET sb == SyncBuffer_create(descriptor) IN
    /\ cpuBuffer = sb.cpuBuffer
    /\ dirtyRange = sb.dirtyRange
    /\ gpuBuffer = sb.gpuBuffer
    /\ cleanTimers = 0
    /\ queueWrites = <<>>
    /\ sinceFlush = {}
    /\ shadow = [i \in 1..sb.cpuBuffer.byteLength |-> -1]
    /\ sets = 0
    /\ lastSet = <<>>
    /\ temps = <<>>
    /\ copies = <<>>
    /\ reads = <<>>
    /\ handles = NewHandles
    /\ mapWrites = <<>>
    /\ destructionListeners = <<>>
    /\ recoveryListeners = <<>>
    /\ removers = <<>>
    /\ timeOuts = <<>>

\* new ReadBuffer(label, device, size), bytes written by earlier copies
InitMapper ==
    mapper = NewMapper([newBlankBuffer(MapBufSize) EXCEPT
                          !.bytes = [i \in 1..Len(@) |-> 100 + i]])

Init == (\E d \in Descriptors : InitSync(d)) /\ InitMapper

\* the caller calls syncBuffer.set(element, value)
Set(e, v) ==
    /\ sets < MaxSets
    /\ LET s == SyncBuffer_set(cpuBuffer, dirtyRange, e, v) IN
        /\ cpuBuffer' = s.cpuBuffer
        /\ dirtyRange' = s.dirtied.dirtyRange
        /\ cleanTimers' = IF s.dirtied.schedule THEN cleanTimers + 1 ELSE cleanTimers
    /\ sinceFlush' = sinceFlush \cup {Element_range(e)}
    /\ shadow' = Patch(shadow, e.offset, Encode(e, v))
    /\ sets' = sets + 1
    /\ lastSet' = e
    /\ UNCHANGED << gpuBuffer, queueWrites, temps, copies, mapper, reads, handles, mapWrites,
                    deviceVars, timeOuts >>

\* a setTimeout(() => this.clean()) callback runs
Clean ==
    /\ cleanTimers > 0
    /\ LET c == clean(cpuBuffer, dirtyRange, gpuBuffer) IN
        /\ cpuBuffer' = c.cpuBuffer
        /\ gpuBuffer' = c.gpuBuffer
        /\ queueWrites' = queueWrites \o c.writes
        /\ dirtyRange' = c.dirtyRange
    /\ cleanTimers' = cleanTimers - 1
    /\ sinceFlush' = {}
    /\ UNCHANGED << shadow, sets, lastSet, temps, copies, mapper, reads, handles, mapWrites,
                    deviceVars, timeOuts >>

\* whether every byte of e was set and every set has been flushed successfully
Flushed(e) ==
    /\ cleanTimers = 0
    /\ e.size > 0
    /\ \A j \in 1..e.size : shadow[e.offset + j] # -1
    /\ \A k \in 1..Len(queueWrites) : queueWrites[k].outcome = "ok"

\* the caller calls syncBuffer.gpuBuffer.get(segment).asData(), segment the
\* byte range of the element it last set (one that has bytes); want/flushed
\* record the mirror at the time of the call
Get(e) ==
    /\ Len(temps) < MaxGets
    /\ e = lastSet
    /\ e.size > 0
    /\ LET t == DataBuffer_get(gpuBuffer, e) IN
        /\ temps' = Append(temps,
            [ mapper |-> t.mapper, threw |-> t.threw, destroys |-> t.destroys,
              segment |-> t.segment,
              want |-> SyncBuffer_get(cpuBuffer, e), flushed |-> Flushed(e) ])
        /\ copies' = Append(copies,
            [ srcOffset |-> e.offset, dstOffset |-> 0, size |-> e.size,
              threw |-> t.threw, commands |-> t.commands ])
        \* the staging buffer's handle is created, and destroyed t.destroys times
        /\ handles' = [handles EXCEPT
                !.created = @ + 1,
                !.destroyed = IF t.destroys > 0 THEN @ \cup {handles.created + 1} ELSE @]
    /\ UNCHANGED << syncVars, mapper, reads, mapWrites,
                    deviceVars, timeOuts >>

\* the setTimeout callback of a staging buffer's scheduleMapping runs
TempTimer(k) ==
    /\ ArmedNode(temps[k].mapper) # 0
    /\ temps' = [temps EXCEPT ![k].mapper = TimerCallback(@, ArmedNode(@))]
    /\ UNCHANGED << syncVars, copies, mapper, reads, handles, mapWrites,
                    deviceVars, timeOuts >>

\* the physical mapAsync promise of a staging buffer settles
TempSettle(k, ok) ==
    /\ temps[k].mapper.inFlight.node # 0
    /\ temps' = [temps EXCEPT ![k].mapper = MapSettles(@, ok)]
    /\ UNCHANGED << syncVars, copies, mapper, reads, handles, mapWrites,
                    deviceVars, timeOuts >>

Next ==
    \/ \E e \in Elements(cpuBuffer.byteLength), v \in Values : Set(e, v)
    \/ Clean

Spec == Init /\ [][Next]_vars

\* timers fire: a pending timer callback eventually runs. Clean is the only action that takes a timer off,
\* so a TimerRuns step is a Clean step
TimerRuns == cleanTimers > 0 /\ cleanTimers' = cleanTimers - 1

FairSpec == Spec /\ WF_cleanTimers(TimerRuns)

\* ------------------------------------------------------------- read-back
ReadInit ==
    /\ \E d \in Descriptors : d.data.byteOffset = 0 /\ InitSync(d)
    /\ InitMapper

ReadNext ==
    \/ \E e \in Elements(cpuBuffer.byteLength), v \in Values :
            sets < MaxReadSets /\ Set(e, v)
    \/ Clean
    \/ \E e \in Elements(cpuBuffer.byteLength) : Get(e)
    \/ \E k \in 1..Len(temps) : TempTimer(k)
    \/ \E k \in 1..Len(temps), ok \in BOOLEAN : TempSettle(k, ok)

ReadSpec == ReadInit /\ [][ReadNext]_vars

\* ------------------------------------------------------------- buffer lifetime
\* the caller calls syncBuffer.gpuBuffer.destroy()
DestroyBuffer ==
    /\ ~gpuBuffer.destroyed
    /\ gpuBuffer' = Destroy(gpuBuffer)
    /\ handles' = [handles EXCEPT !.destroyed = @ \cup {handles.dataBuffer}]
    /\ UNCHANGED << cpuBuffer, dirtyRange, cleanTimers, queueWrites, sinceFlush,
                    shadow, sets, lastSet, temps, copies, mapper, reads, mapWrites,
                    deviceVars, timeOuts >>

\* the segments and data offsets of the caller's direct writes
SegmentOffsets(size) == {0, 1, size}

SegmentSizes == {2, 4}

DataOffsets == {0, 1}

\* the caller calls syncBuffer.gpuBuffer.set(segment).fromData(data, dataOffset)
FromData(segment, data, dataOffset) ==
    /\ Len(queueWrites) < MaxWrites
    /\ LET w == DataBuffer_set(gpuBuffer, segment, data, dataOffset) IN
        /\ gpuBuffer' = w.buffer
        /\ queueWrites' = Append(queueWrites, w.call)
    /\ UNCHANGED << cpuBuffer, dirtyRange, cleanTimers, sinceFlush, shadow, sets,
                    lastSet, temps, copies, mapper, reads, handles, mapWrites,
                    deviceVars, timeOuts >>

LifeNext ==
    \/ \E e \in Elements(cpuBuffer.byteLength), v \in Values :
            sets < MaxReadSets /\ Set(e, v)
    \/ Clean
    \/ DestroyBuffer
    \/ \E offset \in SegmentOffsets(gpuBuffer.size), size \in SegmentSizes,
          dataOffset \in DataOffsets :
            FromData([offset |-> offset, size |-> size], DataViewOf(0, MaxSize, 0), dataOffset)

\* a SyncBuffer created with a size (the mirror is a fresh ArrayBuffer)
LifeInit ==
    /\ \E d \in Descriptors : d.size # -1 /\ InitSync(d)
    /\ InitMapper

LifeSpec == LifeInit /\ [][LifeNext]_vars

\* ------------------------------------------------------------- copies
CopyOffsets == {0, 1, 2}

CopySizes == {2, 4}

\* the caller calls syncBuffer.gpuBuffer.copy({offset: srcOffset, size})
\* .to(readBuffer, dstOffset), readBuffer being the mapper's ReadBuffer
Copy(srcOffset, dstOffset, size) ==
    /\ Len(copies) < MaxCopies
    /\ LET c == copy(gpuBuffer, srcOffset, mapper.buffer, dstOffset, size) IN
        /\ mapper' = [mapper EXCEPT !.buffer = c.dst]
        /\ copies' = Append(copies,
              [ srcOffset |-> srcOffset, dstOffset |-> dstOffset, size |-> size,
                threw |-> c.threw, commands |-> c.commands ])
    /\ UNCHANGED << syncVars, temps, reads, handles, mapWrites,
                    deviceVars, timeOuts >>

CopyNext ==
    \/ \E e \in Elements(cpuBuffer.byteLength), v \in Values :
            sets < MaxReadSets /\ Set(e, v)
    \/ Clean
    \/ \E srcOffset \in CopyOffsets, dstOffset \in CopyOffsets, size \in CopySizes :
            Copy(srcOffset, dstOffset, size)

CopySpec == LifeInit /\ [][CopyNext]_vars

\* mirrors over ArrayBuffers that end with the view
MirrorInit ==
    /\ \E d \in Descriptors :
            /\ Len(d.data.buffer) = d.data.byteOffset + d.data.byteLength
            /\ InitSync(d)
    /\ InitMapper

\* ------------------------------------------------------------- writes
\* flushes of the mirror and direct writes of the caller on one buffer
WriteNext ==
    \/ \E e \in Elements(cpuBuffer.byteLength), v \in Values :
            sets < MaxReadSets /\ Set(e, v)
    \/ Clean
    \/ \E offset \in SegmentOffsets(gpuBuffer.size) \cap {0, 1}, size \in SegmentSizes,
          dataOffset \in DataOffsets :
            /\ dataOffset = 0 => (offset = 1 /\ size = 2)
            /\ FromData([offset |-> offset, size |-> size], DataViewOf(0, MaxSize, 0),
                        dataOffset)

WriteSpec == MirrorInit /\ [][WriteNext]_vars

\* ------------------------------------------------------------- setData
\* DataBuffer.setData(data): data larger than the buffer replaces the handle
\* through the wrapped setter (this._wrapped.destroy(); this._wrapped = b),
\* other data is written from offset 0. old is the handle the call started with
DataBuffer_setData(b, data) ==
    IF data.byteLength > b.size
    THEN [ replaced |-> TRUE, old |-> Destroy(b),
           buffer |-> newInitializedBuffer(data), writes |-> <<>> ]
    ELSE LET w == DataBuffer_set(b, [offset |-> 0, size |-> data.byteLength], data, 0)
         IN  [ replaced |-> FALSE, old |-> b, buffer |-> w.buffer,
               writes |-> <<w.call>> ]

\* the byte lengths of the data passed to setData
SetDataLengths == {2, MaxSize - 1, MaxSize + 3}

\* the caller calls syncBuffer.gpuBuffer.setData(data)
SetData(data) ==
    /\ Len(queueWrites) < MaxWrites
    /\ LET r == DataBuffer_setData(gpuBuffer, data) IN
        /\ gpuBuffer' = r.buffer
        /\ queueWrites' = queueWrites \o r.writes
        /\ handles' = IF r.replaced
                      THEN [handles EXCEPT
                              !.destroyed = IF r.old.destroyed
                                            THEN @ \cup {handles.dataBuffer} ELSE @,
                              !.retired = @ \cup {handles.dataBuffer},
                              !.created = @ + 1,
                              !.dataBuffer = handles.created + 1]
                      ELSE handles
    /\ UNCHANGED << cpuBuffer, dirtyRange, cleanTimers, sinceFlush, shadow, sets,
                    lastSet, temps, copies, mapper, reads, mapWrites,
                    deviceVars, timeOuts >>

DataNext ==
    \/ \E e \in Elements(cpuBuffer.byteLength), v \in Values :
            sets < MaxReadSets /\ Set(e, v)
    \/ Clean
    \/ \E n \in SetDataLengths : SetData(DataViewOf(0, n, 0))

DataSpec == MirrorInit /\ [][DataNext]_vars

\* ------------------------------------------------------------- mirror reads
MaxReads == 1

\* syncBuffer.get(element) that also marks the element's range dirty
GetElement_dirtying(e) ==
    /\ Len(reads) < MaxReads
    /\ reads' = Append(reads, [element |-> e, value |-> SyncBuffer_get(cpuBuffer, e)])
    /\ LET d == dirty(dirtyRange, Element_range(e)) IN
        /\ dirtyRange' = d.dirtyRange
        /\ cleanTimers' = IF d.schedule THEN cleanTimers + 1 ELSE cleanTimers
    /\ UNCHANGED << cpuBuffer, gpuBuffer, queueWrites, sinceFlush, shadow, sets,
                    lastSet, temps, copies, mapper, handles, mapWrites,
                    deviceVars, timeOuts >>

\* the caller calls syncBuffer.get(element): element.read(this.cpuBuffer) and
\* nothing else
GetElement(e) ==
    /\ Len(reads) < MaxReads
    /\ reads' = Append(reads, [element |-> e, value |-> SyncBuffer_get(cpuBuffer, e)])
    /\ UNCHANGED << syncVars, temps, copies, mapper, handles, mapWrites,
                    deviceVars, timeOuts >>

MirrorNext ==
    \/ \E e \in Elements(cpuBuffer.byteLength), v \in Values :
            sets < MaxReadSets /\ Set(e, v)
    \/ Clean
    \/ \E e \in Elements(cpuBuffer.byteLength) : e.size > 0 /\ GetElement(e)

MirrorSpec == MirrorInit /\ [][MirrorNext]_vars

\* ------------------------------------------------------------- a sized mirror
\* SyncBuffer.create(label, device, { usage, size: 10 })
ScenarioDescriptor == [size |-> 10, data |-> DataViewOf(0, 0, 0)]

\* two-byte elements at byte offsets 3 and 7, and one over the last two bytes
ScenarioElements ==
    { [offset |-> 3, size |-> 2], [offset |-> 7, size |-> 2], [offset |-> 10, size |-> 2] }

ScenarioInit == InitSync(ScenarioDescriptor) /\ InitMapper

ScenarioNext ==
    \/ \E e \in ScenarioElements, v \in Values : Set(e, v)
    \/ Clean

ScenarioSpec == ScenarioInit /\ [][ScenarioNext]_vars

\* ------------------------------------------------------------- mapper alone
ReqOffsets == {0, 3, 8}

ReqSizes == {0, 4, 5}

\* the caller calls readBuffer.get({offset, size}).asData(): mapper.mapAsync
MapRequest(offset, size) ==
    /\ Len(mapper.reqs) < MaxReqs
    /\ offset + size <= mapper.buffer.size
    /\ mapper' = mapAsync(mapper, offset, size)
    /\ UNCHANGED << syncVars, temps, copies, reads, handles, mapWrites,
                    deviceVars, timeOuts >>

\* the setTimeout callback of scheduleMapping runs
MapTimer ==
    /\ ArmedNode(mapper) # 0
    /\ mapper' = TimerCallback(mapper, ArmedNode(mapper))
    /\ UNCHANGED << syncVars, temps, copies, reads, handles, mapWrites,
                    deviceVars, timeOuts >>

\* the physical mapAsync promise settles
MapSettle(ok) ==
    /\ mapper.inFlight.node # 0
    /\ mapper' = MapSettles(mapper, ok)
    /\ UNCHANGED << syncVars, temps, copies, reads, handles, mapWrites,
                    deviceVars, timeOuts >>

MapperInit == InitSync([size |-> MaxSize, data |-> DataViewOf(0, 0, 0)]) /\ InitMapper

MapperNext ==
    \/ \E offset \in ReqOffsets, size \in ReqSizes : MapRequest(offset, size)
    \/ MapTimer
    \/ \E ok \in BOOLEAN : MapSettle(ok)

MapperSpec == MapperInit /\ [][MapperNext]_vars

\* ------------------------------------------------------------- WriteBuffer
\* WriteBuffer.set(bufferSegment).fromData(data, dataOffset) up to its await:
\* the mapper with the request of mapper.mapAsync(bufferOffset, size), and the
\* call's record (req: the request it awaits, src: the bytes to write)
WriteBuffer_set(m, bufferSegment, data, dataOffset) ==
    LET bufferOffset == bufferSegment.offset
        size         == bufferSegment.size
    IN  [ mapper |-> mapAsync(m, bufferOffset, size),
          write  |-> [ req |-> Len(m.reqs) + 1, offset |-> bufferOffset, size |-> size,
                       src |-> Slice(data.buffer, data.byteOffset + dataOffset, size),
                       status |-> "pending", dst |-> <<>>, mapState |-> "none",
                       bytes |-> <<>> ] ]

\* the rest of fromData, run once the awaited request has settled (after the
\* other reactions of the same promise, the unmap among them): dst is the
\* Uint8Array the request resolved with, a view of range.slice(), and
\* dst.set(src) writes into it. mapState and bytes record the buffer's map state
\* and its bytes over the segment at that time
Continue(ws, m) ==
    [ k \in 1..Len(ws) |->
        LET w == ws[k]
            r == m.reqs[w.req]
        IN  IF w.status # "pending" THEN w
            ELSE IF r.status = "resolved"
            THEN [w EXCEPT !.status = "resolved",
                           !.dst = Patch(r.data, 0, w.src),
                           !.mapState = m.buffer.mapState,
                           !.bytes = Slice(m.buffer.bytes, w.offset, w.size)]
            ELSE IF r.status = "rejected"
            THEN [w EXCEPT !.status = "rejected"]
            ELSE w ]

\* new WriteBuffer(label, device, data): newInitializedBuffer and its mapper
WriterInit ==
    /\ InitSync([size |-> MaxSize, data |-> DataViewOf(0, 0, 0)])
    /\ mapper = NewMapper(newInitializedBuffer(DataViewOf(0, MapBufSize, 0)))

\* the caller calls writeBuffer.set({offset, size}).fromData(data), data a view
\* of size bytes at byteOffset 1 of its ArrayBuffer
WriteFromData(offset, size) ==
    /\ Len(mapper.reqs) < MaxReqs
    /\ offset + size <= mapper.buffer.size
    /\ LET w == WriteBuffer_set(mapper, [offset |-> offset, size |-> size],
                                DataViewOf(1, size, 0), 0) IN
        /\ mapper' = w.mapper
        /\ mapWrites' = Continue(Append(mapWrites, w.write), w.mapper)
    /\ UNCHANGED << syncVars, temps, copies, reads, handles,
                    deviceVars, timeOuts >>

\* the setTimeout callback of the WriteBuffer's scheduleMapping runs
WriteTimer ==
    /\ ArmedNode(mapper) # 0
    /\ mapper' = TimerCallback(mapper, ArmedNode(mapper))
    /\ mapWrites' = Continue(mapWrites, mapper')
    /\ UNCHANGED << syncVars, temps, copies, reads, handles,
                    deviceVars, timeOuts >>

\* the physical mapAsync promise of the WriteBuffer settles
WriteSettle(ok) ==
    /\ mapper.inFlight.node # 0
    /\ mapper' = MapSettles(mapper, ok)
    /\ mapWrites' = Continue(mapWrites, mapper')
    /\ UNCHANGED << syncVars, temps, copies, reads, handles,
                    deviceVars, timeOuts >>

WriterNext ==
    \/ \E offset \in ReqOffsets, size \in ReqSizes \ {0} : WriteFromData(offset, size)
    \/ WriteTimer
    \/ \E ok \in BOOLEAN : WriteSettle(ok)

WriterSpec == WriterInit /\ [][WriterNext]_vars

\* ------------------------------------------------------------- handles
MaxReplaces == 2

\* the GPUBuffers a caller assigns to readBuffer.wrapped: one it has just
\* created, or the one dataBuffer.wrapped returns
Replacements == {"fresh", "shared"}

\* the caller assigns readBuffer.wrapped = b (AbstractBuffer's setter):
\* this._wrapped.destroy(); this._wrapped = b. The BufferMapper keeps the
\* GPUBuffer it was constructed with
ReplaceWrapped(b) ==
    /\ Cardinality(handles.retired) < MaxReplaces
    /\ handles.readBuffer \notin handles.retired
    /\ mapper' = IF handles.readBuffer = handles.mapper
                 THEN [mapper EXCEPT !.buffer = Destroy(@)] ELSE mapper
    /\ gpuBuffer' = IF handles.readBuffer = handles.dataBuffer
                    THEN Destroy(gpuBuffer) ELSE gpuBuffer
    /\ handles' = [handles EXCEPT
            !.destroyed = @ \cup {handles.readBuffer},
            !.retired = @ \cup {handles.readBuffer},
            !.created = IF b = "fresh" THEN @ + 1 ELSE @,
            !.readBuffer = IF b = "fresh" THEN handles.created + 1
                           ELSE handles.dataBuffer]
    /\ UNCHANGED << cpuBuffer, dirtyRange, cleanTimers, queueWrites, sinceFlush,
                    shadow, sets, lastSet, temps, copies, reads, mapWrites,
                    deviceVars, timeOuts >>

HandleNext ==
    \/ MapRequest(0, 4)
    \/ MapTimer
    \/ \E ok \in BOOLEAN : MapSettle(ok)
    \/ \E b \in Replacements : ReplaceWrapped(b)
    \/ \E n \in SetDataLengths : SetData(DataViewOf(0, n, 0))

HandleSpec == MapperInit /\ [][HandleNext]_vars

\* ------------------------------------------------------------- Device listeners
MaxListeners == 3

MaxRemoverCalls == 2

\* Array.prototype.indexOf: the 0-based index of the first x in list, or -1
indexOf(list, x) ==
    IF \E i \in 1..Len(list) : list[i] = x
    THEN (CHOOSE i \in 1..Len(list) :
            list[i] = x /\ \A j \in 1..(i - 1) : list[j] # x) - 1
    ELSE -1

\* Array.prototype.splice(start, deleteCount): a negative start counts from the
\* end of the array
splice(list, start, deleteCount) ==
    LET len         == Len(list)
        actualStart == IF start < 0 THEN Max(len + start, 0) ELSE Min(start, len)
        actualCount == Min(Max(deleteCount, 0), len - actualStart)
    IN  SubSeq(list, 1, actualStart) \o SubSeq(list, actualStart + actualCount + 1, len)

\* Device.addListener(listener, listeners): listeners.push(safeListener)
addListener(listeners, safeListener) == Append(listeners, safeListener)

\* the function addListener returns:
\* () => listeners.splice(listeners.indexOf(safeListener), 1)
remove(listeners, safeListener) == splice(listeners, indexOf(listeners, safeListener), 1)

\* the caller calls device.addDestructionListener(listener)
AddDestructionListener ==
    /\ Len(removers) < MaxListeners
    /\ destructionListeners' = addListener(destructionListeners, Len(removers) + 1)
    /\ removers' = Append(removers, [list |-> "destruction", calls |-> 0])
    /\ UNCHANGED << syncVars, temps, copies, mapper, reads, handles, mapWrites,
                    recoveryListeners, timeOuts >>

\* the caller calls device.addRecoveryListener(listener)
AddRecoveryListener ==
    /\ Len(removers) < MaxListeners
    /\ recoveryListeners' = addListener(recoveryListeners, Len(removers) + 1)
    /\ removers' = Append(removers, [list |-> "recovery", calls |-> 0])
    /\ UNCHANGED << syncVars, temps, copies, mapper, reads, handles, mapWrites,
                    destructionListeners, timeOuts >>

\* the caller calls the function that the id-th addListener call returned
CallRemover(id) ==
    /\ removers[id].calls < MaxRemoverCalls
    /\ removers' = [removers EXCEPT ![id].calls = @ + 1]
    /\ IF removers[id].list = "destruction"
       THEN /\ destructionListeners' = remove(destructionListeners, id)
            /\ UNCHANGED recoveryListeners
       ELSE /\ recoveryListeners' = remove(recoveryListeners, id)
            /\ UNCHANGED destructionListeners
    /\ UNCHANGED << syncVars, temps, copies, mapper, reads, handles, mapWrites,
                    timeOuts >>

DeviceNext ==
    \/ AddDestructionListener
    \/ AddRecoveryListener
    \/ \E id \in 1..Len(removers) : CallRemover(id)

DeviceSpec == MapperInit /\ [][DeviceNext]_vars

\* ------------------------------------------------------------- timeOut
MaxTimeOuts == 3

\* the values a wrapped promise fulfils with, and the reasons it rejects with
PromiseValues == {"v1", "v2"}

PromiseReasons == {"e1"}

\* resolve(value) / reject(reason) of the promise timeOut returns: the first call
\* settles it, later calls have no effect; settleCalls counts the calls
Settle(t, outcome, value) ==
    [t EXCEPT !.settleCalls = @ + 1,
              !.result = IF @ = "pending" THEN outcome ELSE @,
              !.resultValue = IF t.result = "pending" THEN value ELSE @]

\* the reaction to the wrapped promise's settlement that forgets clearTimeout
PromiseReaction_withoutClear(t, outcome, value) ==
    LET t1 == [t EXCEPT !.promise = outcome, !.value = value,
                        !.events = Append(@, "promise")]
    IN  IF t1.id # "null"
        THEN Settle(t1, outcome, value)
        ELSE t1

\* the wrapped promise settles: .then(value => ...) on fulfilment,
\* .catch(reason => ...) on rejection; both act only if id[0] !== null, and then
\* clearTimeout(id[0]) and resolve(value) / reject(reason)
PromiseReaction(t, outcome, value) ==
    LET t1 == [t EXCEPT !.promise = outcome, !.value = value,
                        !.events = Append(@, "promise")]
    IN  IF t1.id # "null"
        THEN Settle([t1 EXCEPT !.timer = "cleared"], outcome, value)
        ELSE t1

\* the setTimeout callback: id[0] = null; reject(new Error("... Timed out ..."))
TimerReaction(t) ==
    Settle([t EXCEPT !.id = "null", !.timer = "fired", !.events = Append(@, "timer")],
           "rejected", "TimedOut")

\* timeOut(promise, timeInMilliseconds, tag), the wrapped promise being pending
\* or already settled (its reactions then run before any timer)
timeOut(promise, value) ==
    LET t == [ id |-> "timer", timer |-> "pending", promise |-> "pending",
               value |-> "none", result |-> "pending", resultValue |-> "none",
               settleCalls |-> 0, events |-> <<>> ]
    IN  IF promise = "pending" THEN t ELSE PromiseReaction(t, promise, value)

\* the outcomes of a wrapped promise with the value or reason of each
Settlements ==
    {<<"fulfilled", v>> : v \in PromiseValues} \cup {<<"rejected", e>> : e \in PromiseReasons}

\* the caller calls timeOut(promise, t, tag)
TimeOutCall(promise, value) ==
    /\ Len(timeOuts) < MaxTimeOuts
    /\ timeOuts' = Append(timeOuts, timeOut(promise, value))
    /\ UNCHANGED << syncVars, temps, copies, mapper, reads, handles, mapWrites,
                    deviceVars >>

\* the timer of the k-th call fires
TimeOutTimer(k) ==
    /\ timeOuts[k].timer = "pending"
    /\ timeOuts' = [timeOuts EXCEPT ![k] = TimerReaction(@)]
    /\ UNCHANGED << syncVars, temps, copies, mapper, reads, handles, mapWrites,
                    deviceVars >>

\* the promise wrapped by the k-th call settles
PromiseSettles(k, outcome, value) ==
    /\ timeOuts[k].promise = "pending"
    /\ timeOuts' = [timeOuts EXCEPT ![k] = PromiseReaction(@, outcome, value)]
    /\ UNCHANGED << syncVars, temps, copies, mapper, reads, handles, mapWrites,
                    deviceVars >>

TimeOutNext ==
    \/ TimeOutCall("pending", "none")
    \/ \E s \in Settlements : TimeOutCall(s[1], s[2])
    \/ \E k \in 1..Len(timeOuts) : TimeOutTimer(k)
    \/ \E k \in 1..Len(timeOuts), s \in Settlements : PromiseSettles(k, s[1], s[2])

TimeOutSpec == MapperInit /\ [][TimeOutNext]_vars

\* ------------------------------------------------------------- properties
\* the smallest interval containing every range of the non-empty set S
Hull(S) ==
    << CHOOSE lo \in {r[1] : r \in S} : \A r \in S : lo <= r[1],
       CHOOSE hi \in {r[2] : r \in S} : \A r \in S : hi >= r[2] >>

LastWrite == queueWrites[Len(queueWrites)]

\* C1: the set calls made between two flushes issue no queue write; the flush
\* that follows them issues exactly one, and the (offset, size) it hands to the
\* write path is the smallest interval containing every range set since the
\* previous flush.
C1_WriteCoalescing ==
    [][ /\ sets' > sets => queueWrites' = queueWrites
        /\ cleanTimers' < cleanTimers =>
              /\ sinceFlush # {}
              /\ Len(queueWrites') = Len(queueWrites) + 1
              /\ LET w == queueWrites'[Len(queueWrites')]
                 IN  <<w.offset, w.offset + w.size>> = Hull(sinceFlush) ]_vars

\* a flush has written a range wider than any single element: several sets,
\* coalesced into one write
C1_Witness ==
    /\ queueWrites # <<>>
    /\ \A z \in ElemSizes : LastWrite.size > z
    /\ Len(queueWrites) = 1
    /\ sets >= 2

\* C2: at most one flush timer is pending, and a set made while one is pending
\* schedules no other.
C2_OneFlushPending ==
    /\ [](cleanTimers <= 1)
    /\ [][(cleanTimers > 0 /\ sets' > sets) => cleanTimers' = cleanTimers]_vars

\* two sets were made and the flush scheduled by the first is still pending
C2_Witness == cleanTimers = 1 /\ sets >= 2 /\ queueWrites = <<>>

\* whether every byte of element e has been set
WasSet(e) == \A j \in 1..e.size : shadow[e.offset + j] # -1

\* C9: get(e) returns the bytes last set over e, while a flush is pending as
\* well as after it, and a flush does not change what get returns.
C9_GetAfterSet ==
    /\ [](\A e \in Elements(cpuBuffer.byteLength) :
            WasSet(e) => SyncBuffer_get(cpuBuffer, e) = Slice(shadow, e.offset, e.size))
    /\ [][cleanTimers' < cleanTimers =>
            \A e \in Elements(cpuBuffer.byteLength) :
                SyncBuffer_get(cpuBuffer', e) = SyncBuffer_get(cpuBuffer, e)]_vars

\* an element was set while the flush of an earlier set has fired and the next
\* one is pending
C9_Witness ==
    /\ cleanTimers = 1
    /\ queueWrites # <<>>
    /\ lastSet # <<>>
    /\ lastSet.size > 0

AllWritesOk == \A k \in 1..Len(queueWrites) : queueWrites[k].outcome = "ok"

\* C10: every set is followed by a flush whose hardware write covers its range
\* (timers fire), and whenever no flush is pending and no write has failed, every
\* byte that was set holds on the hardware the value it has in the mirror.
C10_EverySetFlushed ==
    /\ [](sinceFlush # {} => cleanTimers > 0)
    /\ []((cleanTimers = 0 /\ AllWritesOk) =>
            \A i \in 1..cpuBuffer.byteLength :
                shadow[i] # -1 => gpuBuffer.bytes[i] = cpuBuffer.buffer[cpuBuffer.byteOffset + i])
    /\ [][cleanTimers' < cleanTimers =>
            LET w == queueWrites'[Len(queueWrites')] IN
            \A r \in sinceFlush :
                w.validBufferOffset <= r[1] /\ r[2] <= w.validBufferOffset + w.validSize]_vars
    /\ (sinceFlush # {}) ~> (sinceFlush = {})

\* bytes were set and flushed, and no flush is pending
C10_Witness ==
    /\ cleanTimers = 0
    /\ queueWrites # <<>>
    /\ AllWritesOk
    /\ \E i \in 1..cpuBuffer.byteLength : shadow[i] # -1

\* whether the read of staging buffer t has completed
ReadDone(t) ==
    /\ t.mapper.reqs # <<>>
    /\ \A i \in 1..Len(t.mapper.reqs) : t.mapper.reqs[i].status \in {"resolved", "rejected"}

\* C6: a staging buffer is not destroyed before its physical map has been issued
\* and the read of its bytes has completed (unless the copy into it threw).
C6_DestroyAfterRead ==
    \A k \in 1..Len(temps) :
        (temps[k].mapper.buffer.destroyed /\ ~temps[k].threw) =>
            /\ temps[k].mapper.calls # <<>>
            /\ ReadDone(temps[k])

\* C7: the staging buffer of every DataBuffer.get(...).asData() call that has
\* returned or thrown was destroyed exactly once, and none is left alive:
\* also when the copy threw and when the mapped read rejected.
C7_StagingDestroyedOnce ==
    \A k \in 1..Len(temps) :
        temps[k].destroys = 1 /\ temps[k].mapper.buffer.destroyed

\* a read-back whose copy threw (the segment's offset is not a multiple of 4)
C7_Witness ==
    \E k \in 1..Len(temps) : temps[k].threw /\ temps[k].segment.offset % 4 # 0

\* C8: a read-back over the byte range of an element that was set and flushed
\* does not fail, and it yields the bytes that were set.
C8_RoundTripAcrossFlush ==
    \A k \in 1..Len(temps) :
        temps[k].flushed =>
            /\ ~temps[k].threw
            /\ \A i \in 1..Len(temps[k].mapper.reqs) :
                 LET r == temps[k].mapper.reqs[i] IN
                 /\ r.status \in {"pending", "resolved"}
                 /\ r.status = "resolved" =>
                      Slice(r.data, 0, temps[k].segment.size) = temps[k].want

\* ------------------------------------------------------------- mapper properties
\* a physical map has been scheduled and its timer callback has not run yet
Collecting(m) ==
    \E i \in 1..Len(m.chain) :
        m.chain[i].kind = "then" /\ m.chain[i].state \in {"waiting", "timer"}

\* C3: a logical mapAsync call issues no physical call itself; one arriving while
\* a batch is collecting schedules no second physical map; and the timer callback
\* issues exactly one physical mapAsync, whose range covers the corrected range of
\* every request of its batch.
C3_MapCoalescing ==
    [][ /\ Len(mapper'.reqs) > Len(mapper.reqs) =>
              /\ mapper'.calls = mapper.calls
              /\ Collecting(mapper) => Len(mapper'.chain) = Len(mapper.chain)
        /\ (ArmedNode(mapper) # 0 /\ mapper'.chain[ArmedNode(mapper)].state # "timer") =>
              /\ Cardinality(MapCalls(mapper')) = Cardinality(MapCalls(mapper)) + 1
              /\ LET c == mapper'.calls[Len(mapper.calls) + 1] IN
                 \A i \in 1..Len(mapper.reqs) :
                    mapper.reqs[i].node = ArmedNode(mapper) =>
                        /\ c.offset <= mapper.reqs[i].validOffset
                        /\ mapper.reqs[i].validOffset + mapper.reqs[i].validSize
                              <= c.offset + c.size ]_vars

\* C4: no physical mapAsync is issued while an earlier physical mapping of the
\* buffer is pending or has not been unmapped.
C4_NoMapWhileMapped ==
    \A k \in 1..Len(mapper.calls) :
        mapper.calls[k].op = "map" => mapper.calls[k].mapState = "unmapped"

\* nothing is left to run: no timer is armed and no physical map is in flight
Quiescent(m) == ArmedNode(m) = 0 /\ m.inFlight.node = 0

\* C5: once the timers have fired and the physical maps have settled, every
\* logical request is settled (resolved or rejected).
C5_EveryRequestSettles ==
    Quiescent(mapper) =>
        \A i \in 1..Len(mapper.reqs) : mapper.reqs[i].status \in {"resolved", "rejected"}

\* the position in the call log of the n-th physical mapAsync call (0: not issued)
NthMapCall(m, n) ==
    IF Cardinality(MapCalls(m)) < n THEN 0
    ELSE CHOOSE k \in MapCalls(m) : Cardinality({j \in MapCalls(m) : j <= k}) = n

\* the physical map of the batch request i arrived for: the first one issued
\* after its arrival (0: not issued yet)
BatchMap(m, i) == NthMapCall(m, m.reqs[i].maps + 1)

\* the timer callback of the armed promise runs in this step
TimerFires == ArmedNode(mapper) # 0 /\ mapper'.chain[ArmedNode(mapper)].state # "timer"

\* C11: a request arriving when no batch is collecting (the physical map of the
\* last batch has been issued) starts a new batch; a physical map that is not the
\* first is issued directly after the physical unmap of the batch before it; and
\* the timer callback leaves the pending range empty in the step in which it
\* issues the physical map.
C11_NextBatchAfterUnmap ==
    /\ [][(Len(mapper'.reqs) > Len(mapper.reqs) /\ ~Collecting(mapper)) =>
            /\ Len(mapper'.chain) = Len(mapper.chain) + 1
            /\ mapper'.reqs[Len(mapper'.reqs)].node = Len(mapper'.chain)]_vars
    /\ [](\A k \in MapCalls(mapper) : k > 1 => mapper.calls[k - 1].op = "unmap")
    /\ [][TimerFires =>
            /\ mapper'.range = <<mapper.buffer.size, 0>>
            /\ mapper.range[2] >= mapper.range[1] =>
                  /\ Len(mapper'.calls) = Len(mapper.calls) + 1
                  /\ mapper'.calls[Len(mapper'.calls)].op = "map"]_vars

\* the requests that arrived for the batch whose physical map is call k
BatchOf(m, k) == {i \in 1..Len(m.reqs) : BatchMap(m, i) = k}

\* C12: every physical unmap directly follows the physical map of its batch (one
\* unmap per batch, before the next batch's map); when it is issued every request
\* of the batch has been settled, with its bytes if the map succeeded; a request
\* reads the mapped range only while its batch is mapped; and once nothing is
\* left to run the last batch has been unmapped.
C12_UnmapAfterReads ==
    /\ \A k \in 1..Len(mapper.calls) :
          mapper.calls[k].op = "unmap" =>
            /\ k > 1 /\ mapper.calls[k - 1].op = "map"
            /\ \A i \in BatchOf(mapper, k - 1) :
                  IF mapper.calls[k - 1].result = "fulfilled"
                  THEN mapper.reqs[i].status = "resolved"
                  ELSE mapper.reqs[i].status = "rejected"
    /\ \A k \in MapCalls(mapper) : k > 1 => mapper.calls[k - 1].op = "unmap"
    /\ \A i \in 1..Len(mapper.reqs) :
          mapper.reqs[i].status = "resolved" => mapper.reqs[i].at = BatchMap(mapper, i)
    /\ Quiescent(mapper) =>
          (mapper.calls # <<>> => mapper.calls[Len(mapper.calls)].op = "unmap")

\* C13: once the physical map of a batch has rejected with reason r, every
\* request that arrived for that batch is rejected with r (none resolved, none
\* left pending).
C13_BatchRejectsTogether ==
    \A i \in 1..Len(mapper.reqs) :
        LET k == BatchMap(mapper, i) IN
        (k # 0 /\ mapper.calls[k].result \notin {"pending", "fulfilled"}) =>
            /\ mapper.reqs[i].status = "rejected"
            /\ mapper.reqs[i].reason = mapper.calls[k].result

\* the physical map that was the last one issued when the reaction of request i
\* ran (0: none, or the request is not settled)
ServedBy(m, i) ==
    LET before == {k \in MapCalls(m) : k <= m.reqs[i].at} IN
    IF before = {} THEN 0 ELSE CHOOSE k \in before : \A j \in before : j <= k

\* the physical map promise rejects in this step
MapRejects ==
    /\ mapper.inFlight.node # 0
    /\ mapper'.inFlight.node = 0
    /\ mapper'.calls[LastMapCall(mapper)].result \notin {"pending", "fulfilled"}

\* C14: a rejecting physical map leaves the pending range as it was (empty if no
\* request arrived since the map was issued); a request arriving after a batch
\* failed, when none is collecting, schedules a new physical map; and a request
\* is rejected only by the rejection of a physical map issued after it arrived,
\* never because of the failure of a batch before it.
C14_RecoversAfterRejection ==
    /\ [][MapRejects =>
            /\ mapper'.range = mapper.range
            /\ (\A i \in 1..Len(mapper.reqs) : mapper.reqs[i].maps < Cardinality(MapCalls(mapper)))
                  => mapper'.range = <<mapper.buffer.size, 0>>]_vars
    /\ [][(/\ Len(mapper'.reqs) > Len(mapper.reqs)
            /\ LastMapCall(mapper) # 0
            /\ mapper.calls[LastMapCall(mapper)].result \notin {"pending", "fulfilled"}
            /\ ~Collecting(mapper)) =>
               /\ Len(mapper'.chain) = Len(mapper.chain) + 1
               /\ mapper'.chain[Len(mapper'.chain)].kind = "then"
               /\ mapper'.chain[Len(mapper'.chain)].state \in {"waiting", "timer"}
               /\ mapper'.reqs[Len(mapper'.reqs)].status = "pending"]_vars
    /\ [](\A i \in 1..Len(mapper.reqs) :
            mapper.reqs[i].status = "rejected" =>
                /\ BatchMap(mapper, i) # 0
                /\ ServedBy(mapper, i) >= BatchMap(mapper, i)
                /\ mapper.calls[ServedBy(mapper, i)].result = mapper.reqs[i].reason)

\* a batch was served (resolved) after the batch before it had been rejected
C14_Witness ==
    \E i, j \in 1..Len(mapper.reqs) :
        /\ mapper.reqs[i].status = "rejected"
        /\ mapper.reqs[j].status = "resolved"
        /\ mapper.reqs[j].maps > mapper.reqs[i].maps
        /\ mapper.reqs[j].size > 0

\* C15: requests are settled in arrival order (no request is settled after one
\* that arrived later), and a settled request was served by the first physical
\* map issued after it arrived: the batch it arrived for, none before and none
\* after.
C15_ServedInArrivalOrder ==
    /\ \A a, b \in 1..Len(mapper.served) :
          a < b => mapper.served[a] < mapper.served[b]
    /\ \A i \in 1..Len(mapper.reqs) :
          mapper.reqs[i].status \in {"resolved", "rejected"} =>
              /\ BatchMap(mapper, i) # 0
              /\ ServedBy(mapper, i) = BatchMap(mapper, i)

\* a flush runs in this step and its queue write does not succeed
FlushFails ==
    /\ cleanTimers' < cleanTimers
    /\ queueWrites'[Len(queueWrites')].outcome # "ok"

\* C16: a flush whose write fails leaves the mirror's bytes unchanged and does not
\* lose the range it failed to write: the range stays dirty and a flush of it is
\* pending.
C16_FailedFlushKeepsRange ==
    [][FlushFails =>
        /\ cpuBuffer' = cpuBuffer
        /\ dirtyRange'[1] <= dirtyRange[1] /\ dirtyRange[2] <= dirtyRange'[2]
        /\ cleanTimers' > 0]_vars

\* C17: no queue write is issued on a buffer that has been destroyed.
C17_NoCallAfterDestroy ==
    \A k \in 1..Len(queueWrites) : ~queueWrites[k].destroyed

\* C18: no queue write is issued for a segment that ends beyond the buffer's
\* capacity.
C18_BoundsBeforeWrite ==
    \A k \in 1..Len(queueWrites) :
        queueWrites[k].offset + queueWrites[k].size <= queueWrites[k].capacity

\* C19: a copy whose source and destination offsets differ modulo 4 throws,
\* enqueues no copy command and changes neither buffer.
C19_AlignmentMismatch ==
    [][Len(copies') > Len(copies) =>
        LET c == copies'[Len(copies')] IN
        c.srcOffset % 4 # c.dstOffset % 4 =>
            /\ c.threw
            /\ c.commands = <<>>
            /\ gpuBuffer' = gpuBuffer
            /\ mapper'.buffer = mapper.buffer]_vars

\* a copy from offset 1 to offset 2 was attempted after the source was written
C19_Witness ==
    /\ queueWrites # <<>>
    /\ \E k \in 1..Len(copies) : copies[k].srcOffset = 1 /\ copies[k].dstOffset = 2

\* C20: when a flush succeeds, every hardware byte of the widened region that
\* lies outside the flushed range ends with the mirror's byte at the same index,
\* and, where the region reaches beyond the mirror, keeps the value it had.
C20_WidenedBytes ==
    [][cleanTimers' < cleanTimers =>
        LET w == queueWrites'[Len(queueWrites')] IN
        w.outcome = "ok" =>
            \A j \in w.validBufferOffset..(w.validBufferOffset + w.validSize - 1) :
                (j < w.offset \/ j >= w.offset + w.size) =>
                    gpuBuffer'.bytes[j + 1] =
                        IF j < cpuBuffer.byteLength
                        THEN cpuBuffer.buffer[cpuBuffer.byteOffset + j + 1]
                        ELSE gpuBuffer.bytes[j + 1]]_vars

\* C21: a resolved request holds exactly the bytes it asked for: size bytes, the
\* i-th being the buffer's byte at offset + i, whatever else was merged into the
\* physical mapping.
C21_ExactBytes ==
    \A i \in 1..Len(mapper.reqs) :
        mapper.reqs[i].status = "resolved" =>
            /\ Len(mapper.reqs[i].data) = mapper.reqs[i].size
            /\ \A j \in 1..mapper.reqs[i].size :
                  mapper.reqs[i].data[j] = mapper.buffer.bytes[mapper.reqs[i].offset + j]

\* two requests served by one physical mapping, both resolved with bytes, one of
\* them at an offset that is not a multiple of 8
C21_Witness ==
    \E i, j \in 1..Len(mapper.reqs) :
        /\ i # j
        /\ mapper.reqs[i].status = "resolved" /\ mapper.reqs[j].status = "resolved"
        /\ mapper.reqs[i].at = mapper.reqs[j].at
        /\ mapper.reqs[i].correction > 0
        /\ mapper.reqs[i].size > 0 /\ mapper.reqs[j].size > 0

\* C22: for every queue write of a segment within the buffer's capacity, the
\* corrected offset is the multiple of 4 at or below the offset, the correction
\* is in 0..3, the corrected size is a multiple of 4 and at least size +
\* correction, and the corrected region contains the requested one.
C22_WriteAlignment ==
    \A k \in 1..Len(queueWrites) :
        LET w == queueWrites[k]
            correction == w.offset - w.validBufferOffset
        IN  (w.offset >= 0 /\ w.size >= 0 /\ w.offset + w.size <= w.capacity) =>
                /\ w.validBufferOffset % 4 = 0
                /\ w.validBufferOffset <= w.offset
                /\ correction \in 0..3
                /\ w.validSize % 4 = 0
                /\ w.validSize >= w.size + correction
                /\ w.validBufferOffset + w.validSize >= w.offset + w.size

\* a write of a segment at an offset and of a size that are not multiples of 4
C22_Witness ==
    \E k \in 1..Len(queueWrites) :
        /\ queueWrites[k].offset % 4 # 0
        /\ queueWrites[k].size % 4 # 0
        /\ queueWrites[k].offset + queueWrites[k].size <= queueWrites[k].capacity

\* C23 (as stated): for every logical request the corrected offset is a multiple
\* of 8 and the corrected size is a multiple of 8 and at least size + correction.
C23_MapAlignedTo8 ==
    \A i \in 1..Len(mapper.reqs) :
        LET r == mapper.reqs[i] IN
        /\ r.validOffset % 8 = 0
        /\ r.validSize % 8 = 0
        /\ r.validSize >= r.size + r.correction

\* C23 (amended): for every logical request the corrected offset is the multiple
\* of 8 at or below the offset (correction in 0..7), and the corrected size is a
\* multiple of 4 and at least size + correction.
C23_MapAlignment ==
    \A i \in 1..Len(mapper.reqs) :
        LET r == mapper.reqs[i] IN
        /\ r.validOffset % 8 = 0
        /\ r.correction = r.offset - r.validOffset
        /\ r.correction \in 0..7
        /\ r.validSize % 4 = 0
        /\ r.validSize >= r.size + r.correction

\* a request at an offset that is not a multiple of 8 whose corrected size is not
\* a multiple of 8 was mapped and resolved
C23_Witness ==
    \E i \in 1..Len(mapper.reqs) :
        /\ mapper.reqs[i].correction > 0
        /\ mapper.reqs[i].validSize % 8 # 0
        /\ mapper.reqs[i].status = "resolved"

\* the element of the set call made in this step (<<>>: the step is no set)
SetIn == IF sets' = sets + 1 THEN lastSet' ELSE <<>>

\* C24: a SyncBuffer created with size 10 has a buffer of 12 bytes; a set over
\* bytes [3,5) while nothing is dirty makes the dirty range [3,5); a set over
\* [7,9) then widens it to [3,9); the flush that follows issues exactly one write,
\* with offset 3 and size 6, and leaves the dirty range empty.
C24_Scenario ==
    /\ [](gpuBuffer.size = 12)
    /\ [][(SetIn = [offset |-> 3, size |-> 2] /\ dirtyRange[1] > dirtyRange[2]) =>
            dirtyRange' = <<3, 5>>]_vars
    /\ [][(SetIn = [offset |-> 7, size |-> 2] /\ dirtyRange = <<3, 5>>) =>
            dirtyRange' = <<3, 9>>]_vars
    /\ [][(cleanTimers' < cleanTimers /\ dirtyRange = <<3, 9>>) =>
            /\ Len(queueWrites') = Len(queueWrites) + 1
            /\ queueWrites'[Len(queueWrites')].offset = 3
            /\ queueWrites'[Len(queueWrites')].size = 6
            /\ dirtyRange'[1] > dirtyRange'[2]]_vars

\* the scenario has run: two sets, over [3,5) and [7,9), then the flush
C24_Witness ==
    /\ sets = 2
    /\ cleanTimers = 0
    /\ Len(queueWrites) = 1
    /\ queueWrites[1].offset = 3 /\ queueWrites[1].size = 6
    /\ \A i \in 1..12 : (shadow[i] # -1) <=> (i \in {4, 5, 8, 9})

\* C25: SyncBuffer.get reads only the host mirror: the step of a get returns the
\* element's bytes of the mirror, issues no queue write, copy or map, creates no
\* handle, schedules no flush, and leaves the mirror and the dirty range as
\* they were.
C25_GetIsPureRead ==
    [][Len(reads') = Len(reads) + 1 =>
        /\ LET r == reads'[Len(reads')] IN
            r.value = Slice(cpuBuffer.buffer, cpuBuffer.byteOffset + r.element.offset,
                            r.element.size)
        /\ queueWrites' = queueWrites
        /\ copies' = copies
        /\ temps' = temps
        /\ mapper' = mapper
        /\ gpuBuffer' = gpuBuffer
        /\ handles' = handles
        /\ cleanTimers' = cleanTimers
        /\ cpuBuffer' = cpuBuffer
        /\ dirtyRange' = dirtyRange]_vars

\* a get of an element that was set and not yet flushed, made while that flush
\* is pending, and a flush after it
C25_Witness ==
    /\ Len(reads) = 1
    /\ reads[1].element = lastSet
    /\ reads[1].element.size > 0
    /\ \A j \in 1..reads[1].element.size :
            reads[1].value[j] = shadow[reads[1].element.offset + j]
    /\ Len(queueWrites) = 1
    /\ cleanTimers = 0

\* C26: the capacity of every buffer is a multiple of 4 in every reachable
\* state: as created from a size, as created from initial data of any byte
\* length, and after setData has replaced the handle with a larger one.
C26_CapacityMultipleOf4 ==
    /\ gpuBuffer.size % 4 = 0
    /\ mapper.buffer.size % 4 = 0

\* setData has replaced a handle created from data whose length is no multiple
\* of 4, by one made from data whose length is no multiple of 4 either
C26_Witness ==
    /\ handles.retired # {}
    /\ cpuBuffer.byteLength % 4 # 0
    /\ gpuBuffer.size > cpuBuffer.byteLength + 4

\* C27: at creation of a SyncBuffer (before setData replaces the handle) the
\* mirror's byte length equals the paired buffer's capacity, for both creation
\* forms.
C27_MirrorLengthIsCapacity ==
    handles.dataBuffer = 1 => cpuBuffer.byteLength = gpuBuffer.size

\* C28: each buffer object owns exactly one live handle: a replaced handle has
\* been destroyed, every GPUBuffer call a buffer's operation makes goes to the
\* handle the buffer references at that time (never to one it has replaced), and
\* no two buffer objects reference the same handle.
C28_OneLiveHandle ==
    /\ [](handles.retired \subseteq handles.destroyed)
    /\ [][Len(mapper.calls') > Len(mapper.calls) =>
            handles.mapper = handles.readBuffer]_vars
    /\ [](handles.dataBuffer # handles.readBuffer)

\* C29: flushing an empty dirty range is a no-op: a step in which clean runs
\* while no byte is dirty (as after a set of an element of size 0) issues no
\* queue write and leaves the buffer and the mirror as they were.
C29_EmptyFlushIsNoOp ==
    [][(cleanTimers' < cleanTimers /\ dirtyRange[2] <= dirtyRange[1]) =>
        /\ queueWrites' = queueWrites
        /\ gpuBuffer' = gpuBuffer
        /\ cpuBuffer' = cpuBuffer]_vars

\* the encoding of "no byte dirty" for the mirror's length
EmptyRange == <<cpuBuffer.byteLength, 0>>

\* C30: the dirty range is either the empty encoding [mirror length, 0] or an
\* interval [lo, hi], 0 <= lo <= hi <= mirror length, that is the hull of the
\* ranges set since the last flush; a flush is pending exactly when the range is
\* not the empty encoding; and the range is reset to the empty encoding in the
\* step in which the flush issues its write, and in no other step.
C30_DirtyRangeInvariant ==
    /\ [](\/ dirtyRange = EmptyRange /\ sinceFlush = {}
          \/ /\ sinceFlush # {}
             /\ dirtyRange = Hull(sinceFlush)
             /\ 0 <= dirtyRange[1]
             /\ dirtyRange[1] <= dirtyRange[2]
             /\ dirtyRange[2] <= cpuBuffer.byteLength)
    /\ []((cleanTimers > 0) <=> (dirtyRange # EmptyRange))
    /\ [][(Len(queueWrites') > Len(queueWrites)) <=>
            (dirtyRange # EmptyRange /\ dirtyRange' = EmptyRange)]_vars

\* two sets since the last flush whose hull is neither of their ranges, after
\* an earlier flush has run
C30_Witness ==
    /\ Cardinality(sinceFlush) = 2
    /\ dirtyRange \notin sinceFlush
    /\ dirtyRange = Hull(sinceFlush)
    /\ cleanTimers = 1

\* C31: a copy whose source and destination offsets agree modulo 4 submits
\* exactly one copy command: its offsets are the multiples of 4 at or below the
\* requested ones, its size is the least multiple of 4 covering the size plus the
\* correction, and when the requested region lies inside both buffers so does
\* the command's region.
C31_CopyWidening ==
    [][Len(copies') > Len(copies) =>
        LET c == copies'[Len(copies')]
            correction == c.srcOffset % 4
        IN  c.srcOffset % 4 = c.dstOffset % 4 =>
            /\ ~c.threw
            /\ Len(c.commands) = 1
            /\ LET cmd == c.commands[1] IN
                /\ cmd[1] % 4 = 0 /\ cmd[1] = c.srcOffset - correction
                /\ cmd[2] % 4 = 0 /\ cmd[2] = c.dstOffset - correction
                /\ cmd[3] % 4 = 0
                /\ cmd[3] >= c.size + correction
                /\ cmd[3] < c.size + correction + 4
                /\ (c.srcOffset + c.size <= gpuBuffer.size
                        /\ c.dstOffset + c.size <= mapper.buffer.size) =>
                    (cmd[1] + cmd[3] <= gpuBuffer.size
                        /\ cmd[2] + cmd[3] <= mapper.buffer.size)]_vars

\* a copy of bytes [1, 3) of a 4-byte source, after a flush: widened to [0, 4),
\* the whole source
C31_Witness ==
    /\ queueWrites # <<>>
    /\ gpuBuffer.size = 4
    /\ \E k \in 1..Len(copies) :
            /\ copies[k].srcOffset = 1 /\ copies[k].dstOffset = 1 /\ copies[k].size = 2
            /\ copies[k].commands = << <<0, 0, 4>> >>

\* C32: the widened queue write stays inside the buffer: every write issued for
\* a segment with offset + size <= capacity, by a direct fromData or by a flush,
\* has validBufferOffset >= 0 and validBufferOffset + validSize <= capacity.
C32_WriteInsideBuffer ==
    \A k \in 1..Len(queueWrites) :
        LET w == queueWrites[k] IN
        (w.offset >= 0 /\ w.size >= 0 /\ w.offset + w.size <= w.capacity) =>
            /\ w.validBufferOffset >= 0
            /\ w.validBufferOffset + w.validSize <= w.capacity

\* a flush widened on both sides up to the buffer's end, then a direct write of
\* an unaligned segment
C32_Witness ==
    /\ Len(queueWrites) = 2
    /\ sets = 1
    /\ cleanTimers = 0
    /\ LET w == queueWrites[1] IN
        /\ w.offset % 4 # 0
        /\ (w.offset + w.size) % 4 # 0
        /\ w.validBufferOffset + w.validSize = w.capacity
    /\ queueWrites[2].offset = 1
    /\ queueWrites[2].validSize > queueWrites[2].size

\* C33: the source range handed to the queue write lies inside the source's
\* underlying bytes: validDataOffset >= 0 and validDataOffset + validSize is at
\* most the byte length of data.buffer, for direct writes and for flushes.
C33_SourceInsideData ==
    [][Len(queueWrites') > Len(queueWrites) =>
        LET w == queueWrites'[Len(queueWrites')]
            length == IF cleanTimers' < cleanTimers
                      THEN Len(cpuBuffer.buffer) ELSE MaxSize
        IN  /\ w.validDataOffset >= 0
            /\ w.validDataOffset + w.validSize <= length]_vars

\* C34: every physical mapAsync call has an offset that is a multiple of 8, a
\* size that is a positive multiple of 4 and a range inside the buffer, and no
\* timer callback finds the pending range in its empty encoding (where the
\* call's size would be negative).
C34_PhysicalMapArguments ==
    /\ \A k \in MapCalls(mapper) :
            LET c == mapper.calls[k] IN
            /\ c.offset % 8 = 0
            /\ c.size > 0
            /\ c.size % 4 = 0
            /\ c.offset >= 0
            /\ c.offset + c.size <= mapper.buffer.size
    /\ \A i \in 1..Len(mapper.chain) : mapper.chain[i].state # "stuck"

\* C35: once WriteBuffer.set(segment).fromData(data) has resolved, the buffer's
\* bytes over [offset, offset + size) are the data's bytes, and they were
\* written while the buffer was still mapped (before the batch's unmap).
C35_MappedWrite ==
    \A k \in 1..Len(mapWrites) :
        mapWrites[k].status = "resolved" =>
            /\ mapWrites[k].bytes = mapWrites[k].src
            /\ mapWrites[k].mapState = "mapped"

\* the listeners in a list
Registered(listeners) == {listeners[i] : i \in 1..Len(listeners)}

\* the listeners added to the list whose remover was never called
Kept(list) == {id \in 1..Len(removers) : removers[id].list = list /\ removers[id].calls = 0}

\* C36: after any sequence of add and remove calls each list holds exactly the
\* listeners added to it whose remover was not called: a remover takes out its
\* own listener only, also when it is called again.
C36_RemoverRemovesOwn ==
    /\ Registered(destructionListeners) = Kept("destruction")
    /\ Registered(recoveryListeners) = Kept("recovery")

\* C37: timeOut settles exactly once under every interleaving: while neither
\* the timer nor the wrapped promise has acted the result is pending; if the
\* promise settles first the result is the promise's value or reason and the
\* timer is cleared (it never fires); if the timer fires first the result is the
\* timeout error, and a later settlement of the wrapped promise changes nothing.
C37_SettlesOnce ==
    \A k \in 1..Len(timeOuts) :
        LET t == timeOuts[k] IN
        /\ t.events = <<>> => (t.result = "pending" /\ t.settleCalls = 0)
        /\ (t.events # <<>> /\ t.events[1] = "promise") =>
                /\ t.result = t.promise
                /\ t.resultValue = t.value
                /\ t.timer = "cleared"
                /\ t.events = <<"promise">>
                /\ t.settleCalls = 1
        /\ (t.events # <<>> /\ t.events[1] = "timer") =>
                /\ t.result = "rejected"
                /\ t.resultValue = "TimedOut"
                /\ t.settleCalls = 1

\* one call whose promise fulfilled before the timer, one whose promise rejected
\* only after the timer had fired, and one whose promise was settled at the call
C37_Witness ==
    /\ Len(timeOuts) = 3
    /\ timeOuts[1].events = <<"promise">> /\ timeOuts[1].result = "fulfilled"
    /\ timeOuts[2].events = <<"timer", "promise">> /\ timeOuts[2].promise = "rejected"
    /\ timeOuts[3].events = <<"promise">> /\ timeOuts[3].result = "rejected"

====
